---- MODULE Spec2Model ----
(***************************************************************************)
(* Resilient data-access layer of the dashboard front end:                 *)
(*   services/api.js          axios transport, interceptors, apiRequest    *)
(*   services/dataService.js  data service, direct getStats revision       *)
(*   unnamed/part_003         data service, derived getStats revision and  *)
(*                            getTerritoryMetrics                          *)
(*   unnamed/part_004         mockData / mockApi fixtures                  *)
(*   unnamed/part_000         ErrorMessage, the error panel                *)
(*   unnamed/part_001         ErrorBoundary                                *)
(*   frontend/src/App.jsx     the sections and their useApi call sites     *)
(*   docker/run_docker.ps1    build and run script                         *)
(*   docker/entrypoint.sh     container entrypoint                         *)
(* One service call is followed from its start to the envelope it          *)
(* resolves to; every await of the code is a step of the model.            *)
(***************************************************************************)
EXTENDS Integers, Sequences, FiniteSets, TLC

(***************************************************************************)
(* Bounds of the model.                                                    *)
(***************************************************************************)
\* longest bulk array of business records handed to the derived getStats
MaxRecords == 3
\* longest territories list handed to getTerritoryMetrics
MaxTerritories == 4
\* most fetch cycles one hook instance starts
MaxStarts == 3
\* most rendering faults the ErrorBoundary is followed through
MaxFaults == 3

(***************************************************************************)
(* JavaScript values.  Every value is a record tagged by its type, so that *)
(* null, undefined, strings, numbers, arrays and objects can be told apart *)
(* and compared.                                                           *)
(***************************************************************************)
NULL == [t |-> "null"]
UNDEFINED == [t |-> "undefined"]
Str(s) == [t |-> "string", s |-> s]
Num(n) == [t |-> "number", n |-> n]
Bool(b) == [t |-> "boolean", b |-> b]
Arr(items) == [t |-> "array", items |-> items]
Obj(fields) == [t |-> "object", fields |-> fields]
\* a thrown Error / TypeError / SyntaxError instance
Err(name, message) == [t |-> "error", name |-> name, message |-> message]

\* ToBoolean: what `if (v)` and `v || d` test
Truthy(v) ==
  CASE v.t = "null" -> FALSE
    [] v.t = "undefined" -> FALSE
    [] v.t = "string" -> v.s # ""
    [] v.t = "number" -> v.n # 0
    [] v.t = "boolean" -> v.b
    [] OTHER -> TRUE

\* v === null || v === undefined
Nullish(v) == v.t \in {"null", "undefined"}

\* property read o.k on an object (undefined when the property is absent)
Get(o, k) == IF k \in DOMAIN o.fields THEN o.fields[k] ELSE UNDEFINED

\* a || d
OrElse(a, d) == IF Truthy(a) THEN a ELSE d

\* 1 .. n as a set, empty for n = 0
Upto(n) == 1 .. n

\* all sequences over S of length at most n
SeqsUpTo(S, n) == UNION {[Upto(k) -> S] : k \in 0 .. n}

(***************************************************************************)
(* HTTP transport: the axios instance apiClient with its interceptors.     *)
(***************************************************************************)
\* what a caller hands to apiClient: { method, url, data, ...options }
RequestConfig(method, url, data) == [method |-> method, url |-> url, data |-> data]

\* bodies a server may answer a 2xx with (JSON null and the empty body included)
ServerPayloads ==
  { NULL, Str(""), Arr(<<>>), Arr(<<Obj([name |-> Str("city")])>>),
    Obj([status |-> Str("ok")]) }

\* bodies of a non-2xx answer
ErrorBodies == { Str(""), Obj([detail |-> Str("Not Found")]) }

\* a response object as axios builds it
Response(status, statusText, data, requestConfig) ==
  [status |-> Num(status), statusText |-> Str(statusText), data |-> data,
   config |-> requestConfig]

\* What the adapter below the interceptors does with one request: it answers
\* 2xx, or fails with an error carrying a response (non-2xx), no response
\* (network failure), no response and code ECONNABORTED (the timeout
\* deadline), or fails before anything is sent (no response, no config).
AdapterOutcomes(requestConfig) ==
       { [ok |-> TRUE, response |-> Response(200, "OK", d, requestConfig)] :
           d \in ServerPayloads }
  \cup { [ok |-> TRUE, response |-> Response(204, "No Content", Str(""), requestConfig)] }
  \cup { [ok |-> FALSE,
          error |-> [message |-> Str("Request failed with status code"),
                     code |-> Str("ERR_BAD_RESPONSE"),
                     response |-> Response(st[1], st[2], d, requestConfig),
                     config |-> requestConfig]] :
           st \in { <<404, "Not Found">>, <<500, "Internal Server Error">> },
           d \in ErrorBodies }
  \cup { [ok |-> FALSE,
          error |-> [message |-> Str("Network Error"), code |-> Str("ERR_NETWORK"),
                     response |-> UNDEFINED, config |-> requestConfig]],
         [ok |-> FALSE,
          error |-> [message |-> Str("timeout exceeded"), code |-> Str("ECONNABORTED"),
                     response |-> UNDEFINED, config |-> requestConfig]],
         [ok |-> FALSE,
          error |-> [message |-> Str("request setup failed"), code |-> UNDEFINED,
                     response |-> UNDEFINED, config |-> UNDEFINED]] }

\* error.response?.<k> and error.config?.<k>
OptGet(o, k) == IF o = UNDEFINED THEN UNDEFINED ELSE o[k]

\* a guard that lets the line through whatever the flag
debugLogAlways(debug, line) == <<line>>

\* if (config.features.enableDebug) { console.log(..) / console.error(..) }:
\* the lines the guarded statement writes
debugLog(debug, line) == IF debug THEN <<line>> ELSE <<>>

\* the line of the request interceptor
requestLine(requestConfig) ==
  [level |-> "log", origin |-> "api", label |-> "API Request",
   args |-> [method |-> requestConfig.method, url |-> requestConfig.url,
             params |-> UNDEFINED, data |-> requestConfig.data]]

\* the line of the response interceptor for a response
responseLine(response) ==
  [level |-> "log", origin |-> "api", label |-> "API Response",
   args |-> [status |-> response.status, url |-> response.config.url,
             data |-> response.data]]

\* the line of the response interceptor for an error
errorLine(error) ==
  [level |-> "error", origin |-> "api", label |-> "API Error",
   args |-> [message |-> error.message,
             status |-> OptGet(error.response, "status"),
             url |-> OptGet(error.config, "url"),
             data |-> OptGet(error.response, "data")]]

\* what the interceptors write when the adapter has settled the request
settleLog(debug, outcome) ==
  IF outcome.ok THEN debugLog(debug, responseLine(outcome.response))
  ELSE debugLog(debug, errorLine(outcome.error))

\* request interceptor, fulfilled handler: the configuration goes on unchanged
requestInterceptor(requestConfig) == requestConfig

\* response interceptor, fulfilled handler: the response goes on unchanged
responseInterceptor(response) == response

\* the enhanced error with isNetworkError taken from the error code
enhancedErrorByCode(error) ==
  Obj([message |-> error.message,
       status |-> OptGet(error.response, "status"),
       statusText |-> OptGet(error.response, "statusText"),
       data |-> OptGet(error.response, "data"),
       isNetworkError |-> Bool(error.code = Str("ERR_NETWORK")),
       isTimeout |-> Bool(error.code = Str("ECONNABORTED")),
       url |-> OptGet(error.config, "url")])

\* response interceptor, rejected handler: the enhanced error object
enhancedError(error) ==
  Obj([message |-> error.message,
       status |-> OptGet(error.response, "status"),
       statusText |-> OptGet(error.response, "statusText"),
       data |-> OptGet(error.response, "data"),
       isNetworkError |-> Bool(error.response = UNDEFINED),
       isTimeout |-> Bool(error.code = Str("ECONNABORTED")),
       url |-> OptGet(error.config, "url")])

\* the promise apiClient(requestConfig) settles to, given the adapter's outcome
apiClient(outcome) ==
  IF outcome.ok
    THEN [state |-> "fulfilled", value |-> responseInterceptor(outcome.response)]
    ELSE [state |-> "rejected", reason |-> enhancedError(outcome.error)]

(***************************************************************************)
(* Request wrapper.                                                        *)
(***************************************************************************)
\* apiRequest keeping only the message of the caught error
apiRequestMessageOnly(settled) ==
  IF settled.state = "fulfilled"
    THEN [data |-> settled.value.data, error |-> NULL]
    ELSE [data |-> NULL, error |-> Get(settled.reason, "message")]

\* apiRequest: try { response = await apiClient(..) } catch (error) { .. }
apiRequest(settled) ==
  IF settled.state = "fulfilled"
    THEN [data |-> settled.value.data, error |-> NULL]
    ELSE [data |-> NULL, error |-> settled.reason]

\* the convenience helpers api.get / post / put / patch / delete
ApiVerbs == {"GET", "POST", "PUT", "PATCH", "DELETE"}

\* the body a helper hands to apiRequest: null for get and delete
HelperBody(verb, body) == IF verb \in {"GET", "DELETE"} THEN NULL ELSE body

(***************************************************************************)
(* Fixtures: mockData and mockApi.  A record is carried by its name, the   *)
(* key of its list; the lists keep the order of the source.                *)
(***************************************************************************)
Named(names) == Arr([i \in DOMAIN names |-> Obj([name |-> Str(names[i])])])

mockData ==
  [tables |-> Named(<<"block_group", "business_location", "city", "zipcode",
                      "zone_location">>),
   exports |-> Named(<<"blockgroups.csv", "locations.csv", "businesses.csv">>),
   notebooks |-> Named(<<"city_attributes.ipynb", "neo4j_analytics.ipynb",
                         "neo4j_visualization.ipynb", "neo4j_llm.ipynb">>),
   scripts |-> Named(<<"analysis_block_group_tables.sql", "analysis_esri_tables.sql",
                       "create_postgres_tables.sql", "etl_entity_tables.sql",
                       "etl_entity_relationships.sql">>),
   stats |-> Obj([totalBusinesses |-> Num(67123), totalBlockGroups |-> Num(1523),
                  totalCities |-> Num(342), totalZipcodes |-> Num(1876),
                  graphNodes |-> Num(125847), graphRelationships |-> Num(342156),
                  lastUpdated |-> Str("2024-01-16T12:00:00Z")])]

\* the fixture each data service method falls back to
FixtureKey(method) ==
  CASE method = "getTables" -> "tables"
    [] method = "getExports" -> "exports"
    [] method = "getNotebooks" -> "notebooks"
    [] method = "getScripts" -> "scripts"
    [] method = "getStats" -> "stats"

\* mockApi.getTables / getExports / getNotebooks / getScripts / getStats:
\* the value the promise resolves to once the delay has elapsed
mockApi(method) == mockData[FixtureKey(method)]

(***************************************************************************)
(* Data service: pure parts.                                               *)
(***************************************************************************)
ListMethods == {"getTables", "getExports", "getNotebooks", "getScripts"}

\* the REST path of each method that goes through api.get
Path(method) ==
  CASE method = "getTables" -> "/api/tables"
    [] method = "getExports" -> "/api/exports"
    [] method = "getNotebooks" -> "/api/notebooks"
    [] method = "getScripts" -> "/api/scripts"
    [] method = "getStats" -> "/api/stats"
    [] method = "healthCheck" -> "/health"

\* console.log('Using mock data for ..') of the mock branch
mockLine(method) ==
  [level |-> "log", origin |-> "dataService", label |-> "Using mock data",
   args |-> method]

\* console.warn('API failed, falling back to mock data ..')
fallbackLine(method) ==
  [level |-> "warn", origin |-> "dataService",
   label |-> "API failed, falling back to mock data", args |-> method]

\* console.warn('Failed to ..', error) of the catch blocks
catchLine(method, error) ==
  [level |-> "warn", origin |-> "dataService",
   label |-> IF method = "getStats" THEN "Failed to compute stats from /data"
             ELSE "Failed to load territory metrics from /data",
   args |-> error]

StatsUrl == "/data/ca_businesses_standardized.json"
TerritoryUrl == "/data/ca_businesses_standardized_by_zip_code.json"

\* the continuation without the fallback branch
listAfterGetNoFallback(env) ==
  [next |-> "done", result |-> [data |-> env.data, error |-> env.error]]

\* the continuation falling back also when the server sent nothing to show
listAfterGetFallbackOnEmpty(env) ==
  IF Truthy(env.error) \/ ~Truthy(env.data)
    THEN [next |-> "awaitMock"]
    ELSE [next |-> "done", result |-> [data |-> env.data, error |-> env.error]]

\* the continuation asking the server again when the request failed
listAfterGetRetry(env) ==
  IF Truthy(env.error)
    THEN [next |-> "awaitApi"]
    ELSE [next |-> "done", result |-> [data |-> env.data, error |-> env.error]]

\* A method's continuation after `const { data, error } = await api.get(..)`:
\* with a truthy error it goes on to await the fixture, else it returns.
listAfterGet(env) ==
  IF Truthy(env.error)
    THEN [next |-> "awaitMock"]
    ELSE [next |-> "done", result |-> [data |-> env.data, error |-> env.error]]

\* healthCheck falling back to a fixture as the list methods do
healthAfterGetFallback(env) ==
  IF Truthy(env.error)
    THEN [data |-> mockData.stats, error |-> NULL]
    ELSE [data |-> env.data, error |-> env.error]

\* healthCheck after its await: the envelope is handed on
healthAfterGet(env) == [data |-> env.data, error |-> env.error]

\* the loop with the blockgroup branch adding to the wrong set
RECURSIVE statsLoopWrongSet(_, _)
statsLoopWrongSet(items, acc) ==
  IF items = <<>> THEN acc
  ELSE LET rec == Head(items) IN
       IF Nullish(rec)
         THEN [acc EXCEPT !.thrown = TRUE]
         ELSE LET zip == Get(rec, "zip_code")
                  bg == Get(rec, "blockgroup")
                  city == Get(rec, "city")
              IN statsLoopWrongSet(Tail(items),
                   [acc EXCEPT
                      !.totalBusinesses = @ + 1,
                      !.zips = (IF Truthy(zip) THEN @ \cup {zip} ELSE @)
                                 \cup (IF Truthy(bg) THEN {bg} ELSE {}),
                      !.cities = IF Truthy(city) THEN @ \cup {city} ELSE @])

\* The loop of the derived getStats over the parsed body.  A body that is
\* not iterable, or an element that is null, makes the loop throw TypeError.
RECURSIVE statsLoop(_, _)
statsLoop(items, acc) ==
  IF items = <<>> THEN acc
  ELSE LET rec == Head(items) IN
       IF Nullish(rec)
         THEN [acc EXCEPT !.thrown = TRUE]
         ELSE LET zip == Get(rec, "zip_code")
                  bg == Get(rec, "blockgroup")
                  city == Get(rec, "city")
              IN statsLoop(Tail(items),
                   [acc EXCEPT
                      !.totalBusinesses = @ + 1,
                      !.zips = IF Truthy(zip) THEN @ \cup {zip} ELSE @,
                      !.blockgroups = IF Truthy(bg) THEN @ \cup {bg} ELSE @,
                      !.cities = IF Truthy(city) THEN @ \cup {city} ELSE @])

\* lines 105-130 of the derived getStats: the stats object, or a throw
computeStats(records, now) ==
  IF records.t # "array"
    THEN [thrown |-> TRUE, error |-> Err("TypeError", "records is not iterable")]
    ELSE LET acc == statsLoop(records.items,
                      [totalBusinesses |-> 0, zips |-> {}, blockgroups |-> {},
                       cities |-> {}, thrown |-> FALSE])
         IN IF acc.thrown
              THEN [thrown |-> TRUE,
                    error |-> Err("TypeError", "cannot read properties of null")]
              ELSE [thrown |-> FALSE,
                    stats |-> Obj([totalBusinesses |-> Num(acc.totalBusinesses),
                                   totalBlockGroups |-> Num(Cardinality(acc.blockgroups)),
                                   totalCities |-> Num(Cardinality(acc.cities)),
                                   totalZipcodes |-> Num(Cardinality(acc.zips)),
                                   graphNodes |-> NULL,
                                   graphRelationships |-> NULL,
                                   lastUpdated |-> Str(now)])]

\* the comparator with its operands the other way round (ascending)
compareTerritoriesAscending(a, b) ==
  OrElse(Get(a, "business_count"), Num(0)).n - OrElse(Get(b, "business_count"), Num(0)).n

\* the comparator handed to territories.sort
compareTerritories(a, b) ==
  OrElse(Get(b, "business_count"), Num(0)).n - OrElse(Get(a, "business_count"), Num(0)).n

\* Array.prototype.sort with that comparator: a stable sort, written as an
\* insertion sort (x goes before the first element that compares after it)
RECURSIVE insertTerritory(_, _)
insertTerritory(sorted, x) ==
  IF sorted = <<>> THEN <<x>>
  ELSE IF compareTerritories(Head(sorted), x) > 0
         THEN <<x>> \o sorted
         ELSE <<Head(sorted)>> \o insertTerritory(Tail(sorted), x)

RECURSIVE sortTerritories(_)
sortTerritories(items) ==
  IF items = <<>> THEN <<>>
  ELSE insertTerritory(sortTerritories(SubSeq(items, 1, Len(items) - 1)),
                       items[Len(items)])

\* lines 148-159 of getTerritoryMetrics: the data object, or a throw
territoryData(payload) ==
  IF Nullish(payload)
    THEN [thrown |-> TRUE,
          error |-> Err("TypeError", "cannot read properties of null")]
    ELSE LET list == IF payload.t = "object" THEN Get(payload, "territories")
                     ELSE UNDEFINED
             territories == IF list.t = "array" THEN list.items ELSE <<>>
         IN [thrown |-> FALSE,
             data |-> Obj([groupBy |-> OrElse(IF payload.t = "object"
                                                THEN Get(payload, "group_by")
                                                ELSE UNDEFINED, Str("zip_code")),
                           summary |-> OrElse(IF payload.t = "object"
                                                THEN Get(payload, "summary")
                                                ELSE UNDEFINED, NULL),
                           territories |-> Arr(sortTerritories(territories))])]

\* a catch block of getStats that returns the error as getTerritoryMetrics does
statsCatchSurface(error) == [next |-> "done", result |-> [data |-> NULL, error |-> error]]

\* the catch block of the derived getStats: the error is dropped and the
\* fixture awaited
statsCatch(error) == [next |-> "awaitMock"]

\* a catch block of getTerritoryMetrics that falls back to the fixture
territoryCatchFallback(error) ==
  [next |-> "done",
   result |-> [data |-> Obj([groupBy |-> Str("zip_code"), summary |-> NULL,
                             territories |-> Arr(<<>>)]),
               error |-> NULL]]

\* the catch block of getTerritoryMetrics: the error is returned
territoryCatch(error) == [next |-> "done", result |-> [data |-> NULL, error |-> error]]

(***************************************************************************)
(* Inputs: what the static files and the clock may hold.                   *)
(***************************************************************************)
\* an object with property k set to v, unless v is undefined (k absent)
WithOpt(fields, k, v) == IF v = UNDEFINED THEN fields ELSE (k :> v) @@ fields

\* elements of the bulk export: business records with present, absent and
\* empty fields, and a null element
BulkItems ==
  { Obj([zip_code |-> Str("A"), city |-> Str("X")]),
    Obj([zip_code |-> Str("A"), city |-> Str("Y")]),
    Obj([zip_code |-> Str("B"), city |-> Str("X")]),
    Obj([zip_code |-> Str(""), blockgroup |-> Str("G1"), city |-> Str("X")]),
    Obj([blockgroup |-> Str("G1")]),
    Obj([zip_code |-> NULL, blockgroup |-> Num(0), city |-> Str("")]),
    NULL }

\* parsed bodies of the bulk export
BulkBodies ==
  { NULL, Obj([error |-> Str("not a list")]) }
    \cup { Arr(items) : items \in SeqsUpTo(BulkItems, MaxRecords) }

\* business_count of a territory: absent, or a count
CountValues == { UNDEFINED, Num(0), Num(5), Num(10) }

\* territory lists: the i-th territory has territory_id i
TerritoryLists ==
  { [i \in DOMAIN counts |->
       Obj(WithOpt([territory_id |-> Num(i)], "business_count", counts[i]))] :
    counts \in SeqsUpTo(CountValues, MaxTerritories) }

\* parsed bodies of the territory aggregate
TerritoryBodies ==
  { NULL, Arr(<<>>), Obj([group_by |-> Str("city")]),
    Obj([territories |-> Str("none")]) }
    \cup { Obj(WithOpt(WithOpt([territories |-> Arr(ts)], "group_by", g), "summary", sm)) :
             ts \in TerritoryLists,
             g \in { UNDEFINED, Str(""), Str("city") },
             sm \in { UNDEFINED, Obj([total_businesses |-> Num(3)]) } }

\* what new Date().toISOString() may give
Clock == { "2026-11-05T00:00:00.000Z" }

\* How fetch(url) settles: it rejects (no connection), or resolves to a
\* response that is not ok (404, 500) or ok (200).
FetchOutcomes ==
  { [state |-> "rejected", reason |-> Err("TypeError", "Failed to fetch")] }
    \cup { [state |-> "fulfilled", value |-> [ok |-> FALSE, status |-> Num(st)]] :
             st \in {404, 500} }
    \cup { [state |-> "fulfilled", value |-> [ok |-> TRUE, status |-> Num(200)]] }

\* How response.json() settles for the file at url: the body does not
\* parse, or it parses to a value.
JsonOutcomes(url) ==
  { [state |-> "rejected", reason |-> Err("SyntaxError", "Unexpected token")] }
    \cup { [state |-> "fulfilled", value |-> v] :
             v \in IF url = StatsUrl THEN BulkBodies ELSE TerritoryBodies }

(***************************************************************************)
(* State.                                                                  *)
(***************************************************************************)
VARIABLES
  useMock,        \* config.features.enableMockData, read once at load
  enableDebug,    \* config.features.enableDebug
  revision,       \* the dataService module in use: "direct" or "derived"
  pc,             \* where the call in progress is suspended
  entry,          \* the function called: "api" or a data service method
  httpRequests,   \* request configurations handed to apiClient by this call
  staticFetches,  \* urls handed to fetch() by this call
  adapter,        \* what the adapter did with the request
  settled,        \* how apiClient(..) settled
  response,       \* the Response fetch() resolved to
  parsed,         \* how response.json() settled
  caught,         \* the error a catch block received
  result,         \* the envelope the call resolved to
  console,        \* the lines this call has written to the console
  section,        \* the section of the App that is rendered
  hooks,          \* the fetch state of each useApi call site of that section
  boundary,       \* the ErrorBoundary around the App
  runDocker,      \* a run of docker/run_docker.ps1
  entrypoint      \* a run of docker/entrypoint.sh

vars == <<useMock, enableDebug, revision, pc, entry, httpRequests, staticFetches,
          adapter, settled, response, parsed, caught, result, console, section, hooks,
          boundary, runDocker, entrypoint>>

\* the state of the service call in progress
serviceVars == <<pc, entry, httpRequests, staticFetches, adapter, settled, response,
                 parsed, caught, result, console>>

\* not set
NONE == [t |-> "none"]

Init ==
  /\ useMock \in BOOLEAN
  /\ revision \in {"direct", "derived"}
  /\ pc = "idle"
  /\ entry = "none"
  /\ httpRequests = <<>>
  /\ staticFetches = <<>>
  /\ adapter = NONE
  /\ settled = NONE
  /\ response = NONE
  /\ parsed = NONE
  /\ caught = NONE
  /\ result = NONE
  /\ console = <<>>
  /\ enableDebug \in BOOLEAN
  /\ section = "none"
  /\ hooks = <<>>
  /\ boundary = NONE
  /\ runDocker = NONE
  /\ entrypoint = NONE

(***************************************************************************)
(* Operations.                                                             *)
(***************************************************************************)
\* a call begins: it hands reqs to apiClient and urls to fetch, and suspends
Start(e, reqs, urls, next) ==
  /\ pc = "idle"
  /\ entry' = e
  /\ httpRequests' = reqs
  /\ staticFetches' = urls
  /\ pc' = next
  /\ console' = (IF next = "awaitMock" THEN <<mockLine(e)>> ELSE <<>>)
                  \o (IF reqs = <<>> THEN <<>>
                      ELSE debugLog(enableDebug, requestLine(reqs[1])))
  /\ UNCHANGED <<useMock, enableDebug, revision, section, hooks, boundary, runDocker,
                 entrypoint, adapter, settled, response, parsed,
                 caught, result>>

\* api.get / post / put / patch / delete, up to the await in apiRequest
ApiHelperCall(verb, body) ==
  /\ verb \in ApiVerbs
  /\ Start("api", <<RequestConfig(verb, "/api/tables", HelperBody(verb, body))>>,
           <<>>, "awaitApi")

\* the opening of a list method without the mock branch
ListCallNoMockBranch(method) ==
  /\ method \in ListMethods \/ (method = "getStats" /\ revision = "direct")
  /\ pc = "idle"
  /\ entry' = method
  /\ httpRequests' = <<RequestConfig("GET", Path(method), NULL)>>
  /\ staticFetches' = <<>>
  /\ pc' = "awaitApi"
  /\ console' = debugLog(enableDebug,
                         requestLine(RequestConfig("GET", Path(method), NULL)))
  /\ UNCHANGED <<useMock, enableDebug, revision, section, hooks, boundary, runDocker,
                 entrypoint, adapter, settled, response, parsed,
                 caught, result>>

\* getTables / getExports / getNotebooks / getScripts and the direct
\* getStats, up to their first await: the fixture in mock mode, else api.get
ListCall(method) ==
  /\ method \in ListMethods \/ (method = "getStats" /\ revision = "direct")
  /\ IF useMock
       THEN Start(method, <<>>, <<>>, "awaitMock")
       ELSE Start(method, <<RequestConfig("GET", Path(method), NULL)>>, <<>>,
                  "awaitApi")

\* healthCheck, up to its await
HealthCheckCall ==
  /\ pc = "idle"
  /\ Start("healthCheck", <<RequestConfig("GET", Path("healthCheck"), NULL)>>, <<>>,
           "awaitApi")

\* the derived getStats, up to its await of fetch
GetStatsDerivedCall ==
  /\ revision = "derived"
  /\ Start("getStats", <<>>, <<StatsUrl>>, "awaitFetch")

\* getTerritoryMetrics, up to its await of fetch
GetTerritoryMetricsCall ==
  /\ revision = "derived"
  /\ Start("getTerritoryMetrics", <<>>, <<TerritoryUrl>>, "awaitFetch")

\* The adapter settles the request; the interceptors and apiRequest run, and
\* the calling method runs on to its return or to its next await.  A
\* continuation that awaits api.get hands one more request to apiClient.
AdapterSettles ==
  /\ pc = "awaitApi"
  /\ \E outcome \in AdapterOutcomes(requestInterceptor(httpRequests[Len(httpRequests)])) :
       LET s == apiClient(outcome)
           env == apiRequest(s)
           k == CASE entry = "api" -> [next |-> "done", result |-> env]
                  [] entry = "healthCheck" ->
                       [next |-> "done", result |-> healthAfterGet(env)]
                  [] OTHER -> listAfterGet(env)
       IN /\ adapter' = outcome
          /\ settled' = s
          /\ pc' = k.next
          /\ result' = IF k.next = "done" THEN k.result ELSE result
          /\ httpRequests' = IF k.next = "awaitApi"
                               THEN Append(httpRequests, httpRequests[Len(httpRequests)])
                               ELSE httpRequests
          /\ console' =
               console \o settleLog(enableDebug, outcome)
                 \o (IF k.next = "awaitMock" THEN <<fallbackLine(entry)>> ELSE <<>>)
                 \o (IF k.next = "awaitApi"
                       THEN debugLog(enableDebug,
                                     requestLine(httpRequests[Len(httpRequests)]))
                       ELSE <<>>)
  /\ UNCHANGED <<useMock, enableDebug, revision, section, hooks, boundary, runDocker,
                 entrypoint, entry, staticFetches, response,
                 parsed, caught>>

\* mockApi's delay elapses and the method returns the fixture
MockSettles ==
  /\ pc = "awaitMock"
  /\ result' = [data |-> mockApi(entry), error |-> NULL]
  /\ pc' = "done"
  /\ UNCHANGED <<useMock, enableDebug, revision, section, hooks, boundary, runDocker,
                 entrypoint, entry, httpRequests, staticFetches,
                 adapter, settled,
                 response, parsed, caught, console>>

\* control reaches the catch block of the method in progress with error
Catch(error) ==
  LET k == IF entry = "getStats" THEN statsCatch(error) ELSE territoryCatch(error)
  IN /\ caught' = error
     /\ console' = Append(console, catchLine(entry, error))
     /\ pc' = k.next
     /\ result' = IF k.next = "done" THEN k.result ELSE result

\* the Error a method throws for a response that is not ok
notOkErrorFor(method, status) ==
  Err("Error",
      (IF method = "getStats" THEN "Failed to load standardized data: "
       ELSE "Failed to load territory metrics: ") \o ToString(status.n))

\* the Error thrown for a response that is not ok by the method in progress
notOkError(status) == notOkErrorFor(entry, status)

\* fetch() settles: a rejection and a response that is not ok go to the
\* catch block, an ok response to the await of response.json()
FetchSettles ==
  /\ pc = "awaitFetch"
  /\ \E o \in FetchOutcomes :
       IF o.state = "rejected"
         THEN Catch(o.reason) /\ UNCHANGED response
         ELSE /\ response' = o.value
              /\ IF ~o.value.ok
                   THEN Catch(notOkError(o.value.status))
                   ELSE pc' = "awaitJson" /\ UNCHANGED <<caught, result, console>>
  /\ UNCHANGED <<useMock, enableDebug, revision, section, hooks, boundary, runDocker,
                 entrypoint, entry, httpRequests, staticFetches,
                 adapter, settled,
                 parsed>>

\* response.json() settles: a parse failure goes to the catch block, a
\* parsed body is reduced (getStats) or sorted (getTerritoryMetrics)
JsonSettles ==
  /\ pc = "awaitJson"
  /\ \E o \in JsonOutcomes(staticFetches[Len(staticFetches)]), now \in Clock :
       /\ parsed' = o
       /\ IF o.state = "rejected"
            THEN Catch(o.reason)
            ELSE LET c == IF entry = "getStats" THEN computeStats(o.value, now)
                          ELSE territoryData(o.value)
                 IN IF c.thrown
                      THEN Catch(c.error)
                      ELSE /\ result' = [data |-> IF entry = "getStats" THEN c.stats
                                                  ELSE c.data,
                                         error |-> NULL]
                           /\ pc' = "done"
                           /\ UNCHANGED <<caught, console>>
  /\ UNCHANGED <<useMock, enableDebug, revision, section, hooks, boundary, runDocker,
                 entrypoint, entry, httpRequests, staticFetches,
                 adapter, settled,
                 response>>

\* the caller has taken the envelope; the next call may begin
Return ==
  /\ pc = "done"
  /\ pc' = "idle"
  /\ entry' = "none"
  /\ httpRequests' = <<>>
  /\ staticFetches' = <<>>
  /\ adapter' = NONE
  /\ settled' = NONE
  /\ response' = NONE
  /\ parsed' = NONE
  /\ caught' = NONE
  /\ result' = NONE
  /\ console' = <<>>
  /\ UNCHANGED <<useMock, enableDebug, revision, section, hooks, boundary, runDocker,
                 entrypoint>>

Next ==
  \/ \E verb \in ApiVerbs, body \in {NULL, Obj([name |-> Str("city")])} :
       ApiHelperCall(verb, body)
  \/ \E method \in ListMethods \cup {"getStats"} : ListCall(method)
  \/ HealthCheckCall
  \/ GetStatsDerivedCall
  \/ GetTerritoryMetricsCall
  \/ AdapterSettles
  \/ MockSettles
  \/ FetchSettles
  \/ JsonSettles
  \/ Return

Spec == Init /\ [][Next]_vars

(***************************************************************************)
(* What a data service method resolves to, as one function of what the     *)
(* network did: the steps above composed.                                  *)
(***************************************************************************)
\* a list method or the direct getStats, mock mode off, for one adapter outcome
listEnvelope(method, outcome) ==
  LET k == listAfterGet(apiRequest(apiClient(outcome)))
  IN IF k.next = "done" THEN k.result
     ELSE [data |-> mockApi(method), error |-> NULL]

\* the catch block of the derived getStats or of getTerritoryMetrics, run to
\* the method's return
catchEnvelope(method, error) ==
  LET k == IF method = "getStats" THEN statsCatch(error) ELSE territoryCatch(error)
  IN IF k.next = "done" THEN k.result
     ELSE [data |-> mockApi(method), error |-> NULL]

\* the derived getStats or getTerritoryMetrics, for one outcome f of fetch and
\* one outcome j of response.json()
staticEnvelope(method, f, j, now) ==
  IF f.state = "rejected" THEN catchEnvelope(method, f.reason)
  ELSE IF ~f.value.ok THEN catchEnvelope(method, notOkErrorFor(method, f.value.status))
  ELSE IF j.state = "rejected" THEN catchEnvelope(method, j.reason)
  ELSE LET c == IF method = "getStats" THEN computeStats(j.value, now)
                ELSE territoryData(j.value)
       IN IF c.thrown THEN catchEnvelope(method, c.error)
          ELSE [data |-> IF method = "getStats" THEN c.stats ELSE c.data,
                error |-> NULL]

\* every envelope a data service method can resolve to, given how
\* response.json() may settle for its static file
methodEnvelopes(method, jsonOutcomes) ==
  IF method \in ListMethods \/ (method = "getStats" /\ revision = "direct")
    THEN IF useMock
           THEN {[data |-> mockApi(method), error |-> NULL]}
           ELSE {listEnvelope(method, o) :
                   o \in AdapterOutcomes(requestInterceptor(
                           RequestConfig("GET", Path(method), NULL)))}
    ELSE {staticEnvelope(method, f, j, now) :
            f \in FetchOutcomes, j \in jsonOutcomes, now \in Clock}

(***************************************************************************)
(* Fetch lifecycle hook useApi(producer, deps).  hooks/useApi.js is not    *)
(* among the sources; the hook is modelled from its specification and from *)
(* its call sites in the App.                                              *)
(***************************************************************************)
\* the sections of the App that hold useApi call sites, and "other" for any
\* other consumer of the hook
Sections ==
  {"dashboard", "database", "exports", "notebooks", "scripts", "other"}
    \cup (IF revision = "derived" THEN {"territories"} ELSE {})

\* the useApi call sites of a section
Sites(sec) ==
  CASE sec = "dashboard" ->
         {"Dashboard.stats"}
           \cup (IF revision = "derived" THEN {"Dashboard.territories"} ELSE {})
    [] sec = "territories" -> {"TerritoryMetricsSection"}
    [] sec = "database" -> {"DatabaseSection"}
    [] sec = "exports" -> {"ExportsSection"}
    [] sec = "notebooks" -> {"NotebooksSection"}
    [] sec = "scripts" -> {"ScriptsSection"}
    [] sec = "other" -> {"Other"}

\* the producer a call site hands to useApi
Producer(site) ==
  CASE site = "Dashboard.stats" -> "getStats"
    [] site = "Dashboard.territories" -> "getTerritoryMetrics"
    [] site = "TerritoryMetricsSection" -> "getTerritoryMetrics"
    [] site = "DatabaseSection" -> "getTables"
    [] site = "ExportsSection" -> "getExports"
    [] site = "NotebooksSection" -> "getNotebooks"
    [] site = "ScriptsSection" -> "getScripts"
    [] site = "Other" -> "other"

\* the call sites of the App pass no dependency list or [], so their trigger
\* signal never changes after the mount; another consumer's may
DepsMayChange(site) == site = "Other"

\* how response.json() may settle for the static file of a producer
ProducerJson(method) ==
  { [state |-> "rejected", reason |-> Err("SyntaxError", "Unexpected token")] }
    \cup { [state |-> "fulfilled", value |-> v] :
             v \in IF method = "getStats"
                     THEN { Arr(<<>>),
                            Arr(<<Obj([zip_code |-> Str("A"), city |-> Str("X")])>>) }
                     ELSE { NULL,
                            Obj([group_by |-> Str("zip_code"),
                                 territories |->
                                   Arr(<<Obj([territory_id |-> Num(1),
                                              business_count |-> Num(5)])>>)]) } }

\* How one invocation of a producer may settle.  The data service methods
\* always fulfil with an envelope; another producer may also reject.
ProducerOutcomes(method) ==
  IF method = "other"
    THEN { [state |-> "fulfilled",
            value |-> [data |-> Obj([name |-> Str("city")]), error |-> NULL]],
           [state |-> "fulfilled",
            value |-> [data |-> NULL, error |-> Err("Error", "producer failed")]],
           [state |-> "rejected", reason |-> Err("Error", "producer threw")] }
    ELSE { [state |-> "fulfilled", value |-> e] :
             e \in methodEnvelopes(method, ProducerJson(method)) }

\* the fetch state of a hook instance before its first cycle (idle)
idleState(loading) == [data |-> NULL, loading |-> loading, error |-> NULL, gen |-> 0]

\* entering loading without clearing the previous error
startCycleKeepError(st) ==
  [st |-> [st EXCEPT !.loading = TRUE, !.gen = @ + 1],
   call |-> st.gen + 1]

\* Entering loading: the previous error is cleared, loading is set, the
\* generation counter is incremented and captured, the producer is invoked.
\* call is the generation captured by the invocation.
startCycle(st) ==
  [st |-> [st EXCEPT !.error = NULL, !.loading = TRUE, !.gen = @ + 1],
   call |-> st.gen + 1]

\* refetch that does nothing while a call is in flight
refetchUnlessLoading(st) ==
  IF st.loading THEN [st |-> st, call |-> 0]
  ELSE [st |-> [st EXCEPT !.error = NULL, !.loading = TRUE, !.gen = @ + 1],
        call |-> st.gen + 1]

\* refetch(): the cycle is restarted with the same producer
refetch(st) == startCycle(st)

\* settling without the generation guard: every result is adopted
onSettledNoGuard(st, g, outcome) ==
  [st |-> IF outcome.state = "fulfilled"
            THEN [st EXCEPT !.data = outcome.value.data,
                            !.error = outcome.value.error,
                            !.loading = FALSE]
            ELSE [st EXCEPT !.error = outcome.reason, !.loading = FALSE],
   call |-> 0]

\* settling without a catch: a rejection of the producer is left unhandled
onSettledNoCatch(st, g, outcome) ==
  [st |-> IF g # st.gen \/ outcome.state = "rejected" THEN st
          ELSE [st EXCEPT !.data = outcome.value.data,
                          !.error = outcome.value.error,
                          !.loading = FALSE],
   call |-> 0]

\* settling with loading ended outside the generation guard
onSettledLoadingAlways(st, g, outcome) ==
  [st |-> IF g # st.gen THEN [st EXCEPT !.loading = FALSE]
          ELSE IF outcome.state = "fulfilled"
            THEN [st EXCEPT !.data = outcome.value.data,
                            !.error = outcome.value.error,
                            !.loading = FALSE]
            ELSE [st EXCEPT !.error = outcome.reason, !.loading = FALSE],
   call |-> 0]

\* settling with a retry: after a failure the producer is invoked again
onSettledRetry(st, g, outcome) ==
  [st |-> IF g # st.gen THEN st
          ELSE IF outcome.state = "fulfilled"
            THEN [st EXCEPT !.data = outcome.value.data,
                            !.error = outcome.value.error,
                            !.loading = FALSE]
            ELSE [st EXCEPT !.error = outcome.reason, !.loading = FALSE],
   call |-> IF g = st.gen /\ (outcome.state = "rejected" \/ outcome.value.error # NULL)
              THEN st.gen ELSE 0]

\* The producer invocation that captured generation g has settled: if g is
\* still the current generation the result is adopted and loading ends, else
\* it is discarded.  A rejection becomes the error.  No producer is invoked
\* (call 0).
onSettled(st, g, outcome) ==
  [st |-> IF g # st.gen THEN st
          ELSE IF outcome.state = "fulfilled"
            THEN [st EXCEPT !.data = outcome.value.data,
                            !.error = outcome.value.error,
                            !.loading = FALSE]
            ELSE [st EXCEPT !.error = outcome.reason, !.loading = FALSE],
   call |-> 0]

\* A hook instance: its fetch state st and the generations captured by the
\* invocations in flight (pending); and what has happened to it so far:
\* whether its mount effect ran, how often the trigger changed and refetch
\* was called, how often the producer was invoked, how the most recently
\* started call settled (latest), whether a settlement was of a superseded
\* call (discarded), and whether one of those came after the latest call
\* had settled, with another outcome (overtaken), and whether a cycle
\* started while the state held an error (cleared).
freshHook(loading) ==
  [st |-> idleState(loading), pending |-> {}, mounted |-> FALSE, triggers |-> 0,
   refetches |-> 0, invoked |-> 0, latest |-> NONE, discarded |-> FALSE,
   overtaken |-> FALSE, cleared |-> FALSE]

\* instance h takes the step r of the hook (a new state and possibly an
\* invocation) after the invocations in `gone` have settled
Stepped(h, r, gone) ==
  [h EXCEPT !.st = r.st,
            !.pending = (@ \ gone) \cup (IF r.call = 0 THEN {} ELSE {r.call}),
            !.invoked = IF r.call = 0 THEN @ ELSE @ + 1]

\* instances that keep their fetch state in one place shared by all of them
withInstanceShared(hs, site, h) ==
  [s \in DOMAIN hs |-> IF s = site THEN h ELSE [hs[s] EXCEPT !.st = h.st]]

\* the instances after the instance at `site` has become h: every instance
\* holds its own state, the others keep theirs
withInstance(hs, site, h) == [hs EXCEPT ![site] = h]

\* the producer invocations made so far by the hook instances at `sites`
RECURSIVE Invocations(_)
Invocations(sites) ==
  IF sites = {} THEN 0
  ELSE LET site == CHOOSE x \in sites : TRUE
       IN  hooks[site].invoked + Invocations(sites \ {site})

\* a new cycle may start in instance h: the hook puts no limit on it, the
\* section's instances together are followed for MaxStarts invocations
MayStart(h) == h.st.gen < MaxStarts /\ Invocations(DOMAIN hooks) < MaxStarts

\* the effect of the mount runs: the first cycle starts
Mount(site) ==
  /\ ~hooks[site].mounted
  /\ MayStart(hooks[site])
  /\ hooks' = withInstance(hooks, site,
       [Stepped(hooks[site], startCycle(hooks[site].st), {}) EXCEPT
                    !.mounted = TRUE, !.latest = NONE, !.overtaken = FALSE,
                    !.cleared = @ \/ hooks[site].st.error # NULL])
  /\ UNCHANGED <<useMock, enableDebug, revision, section, serviceVars, boundary,
                 runDocker, entrypoint>>

\* the trigger signal (dependency list) changes: the effect runs again
TriggerChange(site) ==
  /\ hooks[site].mounted
  /\ DepsMayChange(site)
  /\ MayStart(hooks[site])
  /\ hooks' = withInstance(hooks, site,
       [Stepped(hooks[site], startCycle(hooks[site].st), {}) EXCEPT
                    !.triggers = @ + 1, !.latest = NONE, !.overtaken = FALSE,
                    !.cleared = @ \/ hooks[site].st.error # NULL])
  /\ UNCHANGED <<useMock, enableDebug, revision, section, serviceVars, boundary,
                 runDocker, entrypoint>>

\* refetch() is called
Refetch(site) ==
  /\ MayStart(hooks[site])
  /\ hooks' = withInstance(hooks, site,
       [Stepped(hooks[site], refetch(hooks[site].st), {}) EXCEPT
                    !.refetches = @ + 1, !.latest = NONE, !.overtaken = FALSE,
                    !.cleared = @ \/ hooks[site].st.error # NULL])
  /\ UNCHANGED <<useMock, enableDebug, revision, section, serviceVars, boundary,
                 runDocker, entrypoint>>

\* the producer invocation that captured g settles
Settle(site, g) ==
  /\ g \in hooks[site].pending
  /\ \E outcome \in ProducerOutcomes(Producer(site)) :
       hooks' = withInstance(hooks, site,
         [Stepped(hooks[site], onSettled(hooks[site].st, g, outcome), {g}) EXCEPT
                      !.latest = IF g = hooks[site].st.gen THEN outcome ELSE @,
                      !.discarded = @ \/ g # hooks[site].st.gen,
                      !.overtaken =
                         @ \/ (/\ g # hooks[site].st.gen
                               /\ hooks[site].latest # NONE
                               /\ outcome # hooks[site].latest)])
  /\ UNCHANGED <<useMock, enableDebug, revision, section, serviceVars, boundary,
                 runDocker, entrypoint>>

\* property read error.k on whatever a producer reports as its error: an
\* object, or an Error instance (message and name only)
Prop(v, k) ==
  CASE v.t = "object" -> Get(v, k)
    [] v.t = "error" /\ k = "message" -> Str(v.message)
    [] v.t = "error" /\ k = "name" -> Str(v.name)
    [] OTHER -> UNDEFINED

\* the texts of the error panel
UnknownText == "An unknown error occurred"
NetworkText == "Unable to connect to the server. Please check your connection."
TimeoutText == "Request timed out. The server took too long to respond."
NotFoundText == "The requested resource was not found."
ServerErrorText == "Server error. Please try again later."
GenericText == "Something went wrong. Please try again."

\* ErrorMessage.getErrorMessage: the text the error panel shows for error
getErrorMessage(error) ==
  IF ~Truthy(error) THEN UnknownText
  ELSE IF Truthy(Prop(error, "isNetworkError")) THEN NetworkText
  ELSE IF Truthy(Prop(error, "isTimeout")) THEN TimeoutText
  ELSE IF Prop(error, "status") = Num(404) THEN NotFoundText
  ELSE IF Prop(error, "status") = Num(500) THEN ServerErrorText
  ELSE IF Truthy(Prop(error, "message")) THEN Prop(error, "message").s
  ELSE GenericText

\* what a section renders for the state of its hook
View(st) ==
  IF st.loading THEN "LoadingSpinner"
  ELSE IF Truthy(st.error) THEN "ErrorMessage"
  ELSE "content"

HookInit ==
  /\ useMock \in BOOLEAN
  /\ revision \in {"direct", "derived"}
  /\ pc = "idle"
  /\ entry = "none"
  /\ httpRequests = <<>>
  /\ staticFetches = <<>>
  /\ adapter = NONE
  /\ settled = NONE
  /\ response = NONE
  /\ parsed = NONE
  /\ caught = NONE
  /\ result = NONE
  /\ console = <<>>
  /\ enableDebug = FALSE
  /\ boundary = NONE
  /\ runDocker = NONE
  /\ entrypoint = NONE
  /\ section \in Sections
  /\ hooks \in [Sites(section) -> {freshHook(l) : l \in BOOLEAN}]

HookNext ==
  \/ \E site \in DOMAIN hooks : Mount(site)
  \/ \E site \in DOMAIN hooks : TriggerChange(site)
  \/ \E site \in DOMAIN hooks : Refetch(site)
  \/ \E site \in DOMAIN hooks, g \in 1 .. MaxStarts + 1 : Settle(site, g)

HookSpec == HookInit /\ [][HookNext]_vars

(***************************************************************************)
(* Properties.                                                             *)
(***************************************************************************)
\* exactly one of data and error is non-null
Exclusive(env) == (env.data = NULL) # (env.error = NULL)

\* the methods that follow the mock / fallback pattern in the revision in use
FallbackMethods ==
  ListMethods \cup (IF revision = "direct" THEN {"getStats"} ELSE {})

\* the fixture the spec names for each method
FixtureOf(method) ==
  CASE method = "getTables" -> mockData.tables
    [] method = "getExports" -> mockData.exports
    [] method = "getNotebooks" -> mockData.notebooks
    [] method = "getScripts" -> mockData.scripts
    [] method = "getStats" -> mockData.stats

\* C1: every result of apiRequest (through any api helper) has exactly one of
\* data and error non-null, whatever the transport outcome, a null response
\* body included.
C1_WrapperEnvelopeExclusive ==
  (pc = "done" /\ entry = "api") => Exclusive(result)

\* C2: apiRequest always resolves: once the transport has settled the call is
\* done, with {data: response payload, error: null} when it fulfilled and
\* {data: null, error: the rejected error object} when it rejected.
C2_WrapperConvertsOutcome ==
  (entry = "api" /\ settled # NONE) =>
    /\ pc = "done"
    /\ settled.state = "fulfilled" =>
         result = [data |-> settled.value.data, error |-> NULL]
    /\ settled.state = "rejected" =>
         result = [data |-> NULL, error |-> settled.reason]

\* a helper call resolved after a timeout, with the enhanced error as error
C2_Witness ==
  /\ pc = "done"
  /\ entry = "api"
  /\ settled.state = "rejected"
  /\ Get(settled.reason, "isTimeout") = Bool(TRUE)
  /\ result.data = NULL
  /\ result.error = settled.reason

\* C3: in mock mode the list methods and the direct getStats make no network
\* call at any point, and resolve to {data: the method's fixture, error: null}.
C3_MockShortCircuit ==
  (useMock /\ entry \in FallbackMethods) =>
    /\ httpRequests = <<>>
    /\ staticFetches = <<>>
    /\ pc = "done" => result = [data |-> FixtureOf(entry), error |-> NULL]

\* the direct getStats resolved in mock mode
C3_Witness ==
  /\ useMock
  /\ revision = "direct"
  /\ entry = "getStats"
  /\ pc = "done"
  /\ result.data = mockData.stats
  /\ httpRequests = <<>>

\* C4: with mock mode off, a list method or the direct getStats whose request
\* failed resolves to {data: the fixture of mock mode, error: null}, and the
\* error field of these methods is null in every outcome.
C4_FallbackOnError ==
  (~useMock /\ entry \in FallbackMethods /\ pc = "done") =>
    /\ result.error = NULL
    /\ settled.state = "rejected" =>
         result = [data |-> FixtureOf(entry), error |-> NULL]

\* getTables resolved to the fixture after a 500
C4_Witness ==
  /\ ~useMock
  /\ entry = "getTables"
  /\ pc = "done"
  /\ settled.state = "rejected"
  /\ Get(settled.reason, "status") = Num(500)
  /\ result = [data |-> mockData.tables, error |-> NULL]

\* C5: in mock mode no data service method issues an HTTP request or a
\* static-file fetch.
C5_MockBypassesNetwork ==
  (useMock /\ entry \notin {"none", "api"}) =>
    (httpRequests = <<>> /\ staticFetches = <<>>)

\* C6: every data service method resolves to an envelope with exactly one of
\* data and error non-null, in both modes and for every outcome.
C6_ServiceEnvelopeExclusive ==
  (pc = "done" /\ entry \notin {"none", "api"}) => Exclusive(result)

\* the elements of a sequence
Range(seq) == {seq[i] : i \in DOMAIN seq}

\* how often x occurs in seq
Count(x, seq) == Cardinality({i \in DOMAIN seq : seq[i] = x})

\* business_count of a territory, 0 when missing
CountOf(territory) ==
  IF "business_count" \in DOMAIN territory.fields
    THEN territory.fields.business_count.n
    ELSE 0

\* getTerritoryMetrics has resolved from a parsed body holding a territories list
TerritorySorted ==
  /\ pc = "done"
  /\ entry = "getTerritoryMetrics"
  /\ parsed # NONE
  /\ parsed.state = "fulfilled"
  /\ parsed.value.t = "object"
  /\ Get(parsed.value, "territories").t = "array"

\* C7: on success the territories returned are a permutation of the payload's
\* territories, in non-increasing business_count (missing counted as 0), and
\* territories with equal counts keep their input order.
C7_TerritorySortStable ==
  TerritorySorted =>
    /\ result.error = NULL
    /\ LET in == Get(parsed.value, "territories").items
           out == Get(result.data, "territories").items
       IN /\ Len(out) = Len(in)
          /\ \A x \in Range(in) \cup Range(out) : Count(x, in) = Count(x, out)
          /\ \A i, j \in DOMAIN out : i < j => CountOf(out[i]) >= CountOf(out[j])
          /\ \A i, j \in DOMAIN in :
               (i < j /\ CountOf(in[i]) = CountOf(in[j])) =>
                 \E k, l \in DOMAIN out : k < l /\ out[k] = in[i] /\ out[l] = in[j]

\* counts [5, 5, 10, 0] came out as [10, 5, 5, 0] with the two 5s in input order
C7_Witness ==
  /\ TerritorySorted
  /\ LET in == Get(parsed.value, "territories").items
         out == Get(result.data, "territories").items
     IN /\ [i \in DOMAIN in |-> CountOf(in[i])] = <<5, 5, 10, 0>>
        /\ [i \in DOMAIN out |-> Get(out[i], "territory_id").n] = <<3, 1, 2, 4>>

\* the derived getStats has resolved from a parsed array of objects
StatsDerived ==
  /\ pc = "done"
  /\ entry = "getStats"
  /\ revision = "derived"
  /\ parsed # NONE
  /\ parsed.state = "fulfilled"
  /\ parsed.value.t = "array"
  /\ \A i \in DOMAIN parsed.value.items : parsed.value.items[i].t = "object"

\* the distinct values of field k over the records that have the field
FieldValues(records, k) ==
  {Get(records[i], k) : i \in {j \in DOMAIN records : ~Nullish(Get(records[j], k))}}

\* the distinct non-empty (truthy) values of field k over the records
TruthyValues(records, k) ==
  {Get(records[i], k) : i \in {j \in DOMAIN records : Truthy(Get(records[j], k))}}

\* the number held by field k of the stats object
Stat(k) == Get(result.data, k)

\* C8 as stated: the derived getStats counts the records and, per field, the
\* distinct values over the records that have the field; graphNodes and
\* graphRelationships are null and error is null.
C8_DerivedStatsAllValues ==
  StatsDerived =>
    LET records == parsed.value.items
    IN /\ result.error = NULL
       /\ Stat("totalBusinesses") = Num(Len(records))
       /\ Stat("totalZipcodes") = Num(Cardinality(FieldValues(records, "zip_code")))
       /\ Stat("totalBlockGroups") = Num(Cardinality(FieldValues(records, "blockgroup")))
       /\ Stat("totalCities") = Num(Cardinality(FieldValues(records, "city")))
       /\ Stat("graphNodes") = NULL
       /\ Stat("graphRelationships") = NULL

\* C8 amended: per field the derived getStats counts the distinct non-empty
\* values; a record whose field is missing, null, "" or 0 contributes nothing.
C8_DerivedStatsTruthyValues ==
  StatsDerived =>
    LET records == parsed.value.items
    IN /\ result.error = NULL
       /\ Stat("totalBusinesses") = Num(Len(records))
       /\ Stat("totalZipcodes") = Num(Cardinality(TruthyValues(records, "zip_code")))
       /\ Stat("totalBlockGroups") = Num(Cardinality(TruthyValues(records, "blockgroup")))
       /\ Stat("totalCities") = Num(Cardinality(TruthyValues(records, "city")))
       /\ Stat("graphNodes") = NULL
       /\ Stat("graphRelationships") = NULL

\* the three records {A,X}, {A,Y}, {B,X} gave 3 businesses, 2 zip codes,
\* 2 cities, 0 block groups and no graph size
C8_Witness ==
  /\ StatsDerived
  /\ parsed.value.items = << Obj([zip_code |-> Str("A"), city |-> Str("X")]),
                             Obj([zip_code |-> Str("A"), city |-> Str("Y")]),
                             Obj([zip_code |-> Str("B"), city |-> Str("X")]) >>
  /\ Stat("totalBusinesses") = Num(3)
  /\ Stat("totalZipcodes") = Num(2)
  /\ Stat("totalCities") = Num(2)
  /\ Stat("totalBlockGroups") = Num(0)
  /\ Stat("graphNodes") = NULL

\* the static resource of the call in progress could not be used: fetch
\* rejected, the response was not ok, or the body did not parse
StaticResourceFailed ==
  \/ response = NONE
  \/ ~response.ok
  \/ (parsed # NONE /\ parsed.state = "rejected")

\* C9: when the bulk resource cannot be used the derived getStats resolves to
\* {data: fixture statistics, error: null}.
C9_DerivedStatsFallback ==
  (pc = "done" /\ entry = "getStats" /\ revision = "derived"
     /\ StaticResourceFailed) =>
    result = [data |-> mockData.stats, error |-> NULL]

\* the derived getStats resolved to the fixture after a body that did not parse
C9_Witness ==
  /\ pc = "done"
  /\ entry = "getStats"
  /\ revision = "derived"
  /\ parsed # NONE
  /\ parsed.state = "rejected"
  /\ caught = Err("SyntaxError", "Unexpected token")
  /\ result = [data |-> mockData.stats, error |-> NULL]

\* C10: when the territory resource cannot be used getTerritoryMetrics
\* resolves to {data: null, error: E} with E the non-null error it caught,
\* never to substituted data.
C10_TerritoryNoFallback ==
  (pc = "done" /\ entry = "getTerritoryMetrics" /\ StaticResourceFailed) =>
    /\ result.data = NULL
    /\ result.error # NULL
    /\ result.error = caught

\* getTerritoryMetrics resolved to the error thrown for a 404
C10_Witness ==
  /\ pc = "done"
  /\ entry = "getTerritoryMetrics"
  /\ response # NONE
  /\ response.status = Num(404)
  /\ result.data = NULL
  /\ result.error = Err("Error", "Failed to load territory metrics: 404")

TransportRejected == adapter # NONE /\ ~adapter.ok

\* C12: in every error of the transport isTimeout = true implies
\* isNetworkError = false and status undefined (so for a request that ran
\* into the timeout without a response).
C12_TimeoutExcludesNetworkError ==
  TransportRejected =>
    (Get(settled.reason, "isTimeout") = Bool(TRUE) =>
       /\ Get(settled.reason, "isNetworkError") = Bool(FALSE)
       /\ Get(settled.reason, "status") = UNDEFINED)

\* C13: in every error of the transport status and statusText are defined
\* only when a response was received, isNetworkError is true exactly when
\* none was, and so isNetworkError = true excludes a defined status.
C13_NetworkErrorExcludesStatus ==
  TransportRejected =>
    LET received == adapter.error.response # UNDEFINED
        e == settled.reason
    IN /\ (Get(e, "status") # UNDEFINED) = received
       /\ (Get(e, "statusText") # UNDEFINED) = received
       /\ Get(e, "isNetworkError") = Bool(~received)
       /\ ~(Get(e, "isNetworkError") = Bool(TRUE) /\ Get(e, "status") # UNDEFINED)

\* a request that failed before it was sent is flagged a network error, a 404
\* is not: both kinds of error occur
C13_Witness ==
  /\ TransportRejected
  /\ adapter.error.code = UNDEFINED
  /\ adapter.error.response = UNDEFINED
  /\ Get(settled.reason, "isNetworkError") = Bool(TRUE)
  /\ Get(settled.reason, "status") = UNDEFINED

(***************************************************************************)
(* ErrorBoundary (unnamed/part_001), the class component around the App.   *)
(* boundary holds its state, the fault React has handed to                 *)
(* getDerivedStateFromError and not yet to componentDidCatch (pending),    *)
(* and what has happened so far: faults caught, resets, page reloads, and  *)
(* the lines written to the console (logged).                              *)
(***************************************************************************)
\* the state set by the constructor
boundaryState == [hasError |-> FALSE, error |-> NULL, errorInfo |-> NULL]

\* static getDerivedStateFromError(error): the partial state it returns is
\* merged into the state
getDerivedStateFromError(state, error) == [state EXCEPT !.hasError = TRUE]

\* componentDidCatch(error, errorInfo): setState({ error, errorInfo })
componentDidCatch(state, error, errorInfo) ==
  [state EXCEPT !.error = error, !.errorInfo = errorInfo]

\* a reset that only lowers the flag
handleResetFlagOnly(state) == [state EXCEPT !.hasError = FALSE]

\* handleReset: setState({ hasError: false, error: null, errorInfo: null })
handleReset(state) ==
  [state EXCEPT !.hasError = FALSE, !.error = NULL, !.errorInfo = NULL]

\* render(): the failure panel when hasError, else the children
render(state) == IF state.hasError THEN "panel" ELSE "children"

\* the text of the panel: this.state.error?.message || '...'
panelMessage(state) ==
  IF Nullish(state.error) \/ state.error.message = ""
    THEN "An unexpected error occurred"
    ELSE state.error.message

\* what a child may throw while rendering
RenderFaults ==
  { Err("TypeError", "Cannot read properties of null (reading 'map')"),
    Err("Error", "render failed"),
    Err("Error", "") }

\* the component stacks React may report with a fault
ComponentStacks ==
  { Obj([componentStack |-> Str(c)]) :
      c \in {"Dashboard", "TerritoryMetricsSection", "DatabaseSection",
             "ExportsSection", "NotebooksSection", "ScriptsSection"} }

\* a child throws while rendering: React calls getDerivedStateFromError
ChildThrows(error, errorInfo) ==
  /\ render(boundary.state) = "children"
  /\ boundary.pending = NONE
  /\ boundary.faults < MaxFaults
  /\ boundary' = [boundary EXCEPT
       !.state = getDerivedStateFromError(@, error),
       !.pending = [error |-> error, errorInfo |-> errorInfo],
       !.faults = @ + 1]
  /\ UNCHANGED <<useMock, enableDebug, revision, section, hooks, serviceVars,
                 runDocker, entrypoint>>

\* the commit that follows: React calls componentDidCatch, which logs the
\* fault and stores it
DidCatch ==
  /\ boundary.pending # NONE
  /\ boundary' = [boundary EXCEPT
       !.state = componentDidCatch(@, boundary.pending.error,
                                   boundary.pending.errorInfo),
       !.pending = NONE,
       !.logged = @ + 1]
  /\ UNCHANGED <<useMock, enableDebug, revision, section, hooks, serviceVars,
                 runDocker, entrypoint>>

\* the user presses Try Again on the panel
HandleReset ==
  /\ render(boundary.state) = "panel"
  /\ boundary.pending = NONE
  /\ boundary' = [boundary EXCEPT !.state = handleReset(@), !.resets = @ + 1]
  /\ UNCHANGED <<useMock, enableDebug, revision, section, hooks, serviceVars,
                 runDocker, entrypoint>>

\* the user presses Reload Page on the panel: the page is built anew
ReloadPage ==
  /\ render(boundary.state) = "panel"
  /\ boundary.pending = NONE
  /\ boundary' = [boundary EXCEPT !.state = boundaryState, !.reloads = @ + 1]
  /\ UNCHANGED <<useMock, enableDebug, revision, section, hooks, serviceVars,
                 runDocker, entrypoint>>

BoundaryInit ==
  /\ useMock = FALSE
  /\ enableDebug = FALSE
  /\ revision = "derived"
  /\ pc = "idle"
  /\ entry = "none"
  /\ httpRequests = <<>>
  /\ staticFetches = <<>>
  /\ adapter = NONE
  /\ settled = NONE
  /\ response = NONE
  /\ parsed = NONE
  /\ caught = NONE
  /\ result = NONE
  /\ console = <<>>
  /\ section = "none"
  /\ hooks = <<>>
  /\ boundary = [state |-> boundaryState, pending |-> NONE, faults |-> 0,
                 resets |-> 0, reloads |-> 0, logged |-> 0]
  /\ runDocker = NONE
  /\ entrypoint = NONE

BoundaryNext ==
  \/ \E error \in RenderFaults, errorInfo \in ComponentStacks :
       ChildThrows(error, errorInfo)
  \/ DidCatch
  \/ HandleReset
  \/ ReloadPage

BoundarySpec == BoundaryInit /\ [][BoundaryNext]_vars

(***************************************************************************)
(* docker/run_docker.ps1: build the image and run the container.           *)
(* runDocker holds the position of the script (pc), its switches, the      *)
(* seconds waited for the health check (elapsed), the last health status   *)
(* read (health), whether the summary was shown, the warnings written, the *)
(* message thrown and the exit code (-1 while the script runs).            *)
(***************************************************************************)
\* $timeout = 60
HealthTimeout == 60
\* Start-Sleep -Seconds 2; $elapsed += 2
PollSeconds == 2

\* what docker inspect --format='{{.State.Health.Status}}' may print: a
\* health status, or nothing (no health check, or inspect failed)
HealthStatuses == {"starting", "healthy", "unhealthy", ""}

\* throw inside the try block of the main execution: the catch block
\* reports the message and exits with 1
throw(rd, message) ==
  [rd EXCEPT !.pc = "exited", !.thrown = message, !.exitCode = 1]

\* the script goes on to its next step
goto(rd, next) == [rd EXCEPT !.pc = next]

\* Write-Warning
warn(rd, message) == [rd EXCEPT !.warnings = @ \cup {message}]

\* one pass of the while loop of Start-Container with the status read, and
\* the test after the loop when the loop is left
healthPoll(rd, health) ==
  LET waited == [rd EXCEPT !.elapsed = @ + PollSeconds, !.health = health]
      after == IF waited.elapsed >= HealthTimeout
                 THEN warn(waited, "Health check timed out")
                 ELSE waited
  IN IF health = "healthy" THEN goto(after, "summary")
     ELSE IF health = "unhealthy" THEN throw(waited, "Container failed health check")
     ELSE IF waited.elapsed < HealthTimeout THEN waited
     ELSE goto(after, "summary")

\* a step of run_docker.ps1 leaves everything else as it is
RunDockerStep(rd) ==
  /\ runDocker' = rd
  /\ UNCHANGED <<useMock, enableDebug, revision, section, hooks, serviceVars,
                 boundary, entrypoint>>

\* main execution up to the daemon check: PSScriptRoot and the docker CLI
CheckEnvironment ==
  /\ runDocker.pc = "main"
  /\ \E scriptRoot \in BOOLEAN, cli \in BOOLEAN :
       RunDockerStep(
         IF ~scriptRoot THEN throw(runDocker, "PSScriptRoot is not set")
         ELSE IF ~cli THEN throw(runDocker, "Docker CLI not found")
         ELSE goto(runDocker, "daemon"))

\* Test-DockerDaemon
TestDockerDaemon ==
  /\ runDocker.pc = "daemon"
  /\ \E running \in BOOLEAN :
       RunDockerStep(IF running THEN goto(runDocker, "files")
                     ELSE throw(runDocker, "Docker daemon is not accessible"))

\* Test-RequiredFiles and Test-DockerignoreExists
TestRequiredFiles ==
  /\ runDocker.pc = "files"
  /\ \E missing \in BOOLEAN, dockerignore \in BOOLEAN :
       RunDockerStep(
         IF missing THEN throw(runDocker, "Cannot build Docker image")
         ELSE goto(IF dockerignore THEN runDocker
                   ELSE warn(runDocker, ".dockerignore file not found"),
                   "existing"))

\* Stop-ExistingContainer
StopExistingContainer ==
  /\ runDocker.pc = "existing"
  /\ \E queried \in BOOLEAN, existing \in BOOLEAN, stopped \in BOOLEAN,
         removed \in BOOLEAN :
       RunDockerStep(
         IF ~queried THEN throw(runDocker, "Failed to query Docker")
         ELSE IF ~existing THEN goto(runDocker, "build")
         ELSE LET rd == IF stopped THEN runDocker
                        ELSE warn(runDocker, "Failed to stop container gracefully")
              IN IF removed THEN goto(rd, "build")
                 ELSE throw(rd, "Failed to remove container"))

\* Build-DockerImage
BuildDockerImage ==
  /\ runDocker.pc = "build"
  /\ \E built \in BOOLEAN, imageExists \in BOOLEAN :
       RunDockerStep(
         IF ~built THEN throw(runDocker, "Step failed: Building image")
         ELSE IF ~imageExists THEN throw(runDocker, "image not found")
         ELSE goto(runDocker, "run"))

\* Start-Container up to the health loop: docker run.  In interactive mode
\* there is no wait and no summary, the script exits with 0.
StartContainer ==
  /\ runDocker.pc = "run"
  /\ \E started \in BOOLEAN :
       RunDockerStep(
         IF ~started THEN throw(runDocker, "Step failed: Starting container")
         ELSE IF runDocker.interactive
           THEN [runDocker EXCEPT !.pc = "exited", !.exitCode = 0]
           ELSE goto(runDocker, "health"))

\* one pass of the health loop
PollHealth ==
  /\ runDocker.pc = "health"
  /\ \E health \in HealthStatuses : RunDockerStep(healthPoll(runDocker, health))

\* Show-Summary, Show-ContainerLogs when asked for, and exit 0
ShowSummary ==
  /\ runDocker.pc = "summary"
  /\ RunDockerStep([runDocker EXCEPT !.summary = TRUE, !.pc = "exited",
                                      !.logsShown = runDocker.showLogs,
                                      !.exitCode = 0])

RunDockerInit ==
  /\ useMock = FALSE
  /\ enableDebug = FALSE
  /\ revision = "derived"
  /\ pc = "idle"
  /\ entry = "none"
  /\ httpRequests = <<>>
  /\ staticFetches = <<>>
  /\ adapter = NONE
  /\ settled = NONE
  /\ response = NONE
  /\ parsed = NONE
  /\ caught = NONE
  /\ result = NONE
  /\ console = <<>>
  /\ section = "none"
  /\ hooks = <<>>
  /\ boundary = NONE
  /\ entrypoint = NONE
  /\ \E interactive \in BOOLEAN, showLogs \in BOOLEAN :
       runDocker = [pc |-> "main", interactive |-> interactive,
                    showLogs |-> showLogs, elapsed |-> 0, health |-> "none",
                    summary |-> FALSE, logsShown |-> FALSE, warnings |-> {},
                    thrown |-> "", exitCode |-> -1]

RunDockerNext ==
  \/ CheckEnvironment
  \/ TestDockerDaemon
  \/ TestRequiredFiles
  \/ StopExistingContainer
  \/ BuildDockerImage
  \/ StartContainer
  \/ PollHealth
  \/ ShowSummary

RunDockerSpec == RunDockerInit /\ [][RunDockerNext]_vars

(***************************************************************************)
(* docker/entrypoint.sh, run under set -e.  entrypoint holds the position  *)
(* of the script (pc), what it finds in the container (the files present,  *)
(* nginx, whether mkdir succeeds, whether the directories are writable),   *)
(* the positional parameters of the script (args: the container command),  *)
(* and what it has done: setup, validated, the errors validate_files       *)
(* counted, the warnings, the command exec'd, whether a signal was         *)
(* trapped, and the exit status (-1 while it runs).                        *)
(***************************************************************************)
\* the files validate_files looks for
RequiredFiles ==
  { "/usr/share/nginx/html/index.html", "/etc/nginx/conf.d/default.conf",
    "/etc/supervisor/conf.d/supervisord.conf" }

\* the command the container may be started with
ContainerCommands ==
  { <<>>,
    <<"/usr/bin/supervisord", "-c", "/etc/supervisor/conf.d/supervisord.conf">> }

\* validate_files: the number of errors it counts.  nginx -t is run only
\* when nginx is installed.
validate_files(files, nginx) ==
  Cardinality(RequiredFiles \ files) + (IF nginx = "invalid" THEN 1 ELSE 0)

\* the positional parameters of main: it is called as `main`, without any,
\* whatever the positional parameters of the script are
mainArgs(args) == <<>>

\* a step of entrypoint.sh leaves everything else as it is
EntrypointStep(ep) ==
  /\ entrypoint' = ep
  /\ UNCHANGED <<useMock, enableDebug, revision, section, hooks, serviceVars,
                 boundary, runDocker>>

\* setup_directories: a failing mkdir ends the script (set -e)
SetupDirectories ==
  /\ entrypoint.pc = "setup"
  /\ EntrypointStep(
       IF entrypoint.mkdirOk
         THEN [entrypoint EXCEPT !.setup = TRUE, !.pc = "validate"]
         ELSE [entrypoint EXCEPT !.pc = "exited", !.status = 1])

\* if ! validate_files; then ... exit 1
ValidateFiles ==
  /\ entrypoint.pc = "validate"
  /\ LET errors == validate_files(entrypoint.files, entrypoint.nginx)
     IN EntrypointStep(
          IF errors > 0
            THEN [entrypoint EXCEPT !.validated = TRUE, !.errors = errors,
                                    !.pc = "exited", !.status = 1]
            ELSE [entrypoint EXCEPT !.validated = TRUE, !.errors = errors,
                                    !.pc = "info"])

\* check_permissions and display_env_info: warnings and output only
CheckPermissions ==
  /\ entrypoint.pc = "info"
  /\ EntrypointStep([entrypoint EXCEPT
                       !.warned = ~entrypoint.writable, !.pc = "exec"])

\* exec "$@" inside main: with parameters the command replaces the shell;
\* with none, exec does nothing, main returns and the script ends with 0
ExecCommand ==
  /\ entrypoint.pc = "exec"
  /\ EntrypointStep(
       IF mainArgs(entrypoint.args) # <<>>
         THEN [entrypoint EXCEPT !.execd = mainArgs(entrypoint.args),
                                 !.pc = "replaced"]
         ELSE [entrypoint EXCEPT !.pc = "exited", !.status = 0])

\* SIGTERM or SIGINT while the script runs: shutdown, exit 0
Shutdown ==
  /\ entrypoint.pc \notin {"exited", "replaced"}
  /\ EntrypointStep([entrypoint EXCEPT !.signalled = TRUE, !.pc = "exited",
                                       !.status = 0])

EntrypointInit ==
  /\ useMock = FALSE
  /\ enableDebug = FALSE
  /\ revision = "derived"
  /\ pc = "idle"
  /\ entry = "none"
  /\ httpRequests = <<>>
  /\ staticFetches = <<>>
  /\ adapter = NONE
  /\ settled = NONE
  /\ response = NONE
  /\ parsed = NONE
  /\ caught = NONE
  /\ result = NONE
  /\ console = <<>>
  /\ section = "none"
  /\ hooks = <<>>
  /\ boundary = NONE
  /\ runDocker = NONE
  /\ \E files \in SUBSET RequiredFiles, nginx \in {"absent", "valid", "invalid"},
         mkdirOk \in BOOLEAN, writable \in BOOLEAN, args \in ContainerCommands :
       entrypoint = [pc |-> "setup", files |-> files, nginx |-> nginx,
                     mkdirOk |-> mkdirOk, writable |-> writable, args |-> args,
                     setup |-> FALSE, validated |-> FALSE, errors |-> 0,
                     warned |-> FALSE, execd |-> <<>>, signalled |-> FALSE,
                     status |-> -1]

EntrypointNext ==
  \/ SetupDirectories
  \/ ValidateFiles
  \/ CheckPermissions
  \/ ExecCommand
  \/ Shutdown

EntrypointSpec == EntrypointInit /\ [][EntrypointNext]_vars

(***************************************************************************)
(* Properties of the fetch lifecycle hook, checked under HookSpec.         *)
(***************************************************************************)
\* the failure an invocation settled with, null when it succeeded
Failure(outcome) ==
  IF outcome.state = "rejected" THEN outcome.reason ELSE outcome.value.error

\* the state of instance h holds what the outcome brought
Adopted(h, outcome) ==
  /\ ~h.st.loading
  /\ h.st.error = Failure(outcome)
  /\ outcome.state = "fulfilled" => h.st.data = outcome.value.data

\* C14: within one hook instance the last call started wins: once the most
\* recently started call has settled, data and error are its result, in
\* whatever order the calls settled, and a late result of an earlier call
\* never overwrites it.
C14_LastStartedWins ==
  \A site \in DOMAIN hooks :
    hooks[site].latest # NONE =>
      /\ hooks[site].st.gen \notin hooks[site].pending
      /\ Adopted(hooks[site], hooks[site].latest)

\* call B was started before call A settled, B settled first, then A settled
\* with another outcome; both are done
C14_Witness ==
  \E site \in DOMAIN hooks :
    /\ hooks[site].overtaken
    /\ hooks[site].pending = {}
    /\ hooks[site].st.gen = 2
    /\ Adopted(hooks[site], hooks[site].latest)

\* C15: refetch() always starts a new cycle: it enters loading, bumps the
\* generation by one and invokes the producer once, whether the hook is
\* idle, loading or settled and whether or not the trigger signal changed.
C15_RefetchRestarts ==
  [][\A site \in DOMAIN hooks :
       hooks'[site].refetches # hooks[site].refetches =>
         /\ hooks'[site].refetches = hooks[site].refetches + 1
         /\ hooks'[site].triggers = hooks[site].triggers
         /\ hooks'[site].st.loading
         /\ hooks'[site].st.gen = hooks[site].st.gen + 1
         /\ hooks'[site].invoked = hooks[site].invoked + 1
         /\ hooks'[site].pending =
              hooks[site].pending \cup {hooks'[site].st.gen}]_vars

\* refetch() was called while the call of the mount was in flight, with no
\* change of the trigger signal: both calls are in flight
C15_Witness ==
  \E site \in DOMAIN hooks :
    /\ hooks[site].mounted
    /\ hooks[site].triggers = 0
    /\ hooks[site].refetches = 1
    /\ hooks[site].pending = {1, 2}
    /\ hooks[site].st.loading

\* C16: the hook never throws: once the most recently started call has
\* failed, through an envelope with an error or a rejection, the failure is
\* the hook's error and loading is false.
C16_FailureBecomesState ==
  \A site \in DOMAIN hooks :
    (hooks[site].latest # NONE /\ Failure(hooks[site].latest) # NULL) =>
      /\ hooks[site].st.error = Failure(hooks[site].latest)
      /\ ~hooks[site].st.loading
      /\ View(hooks[site].st) = "ErrorMessage"

\* the producer of the most recently started call rejected
C16_Witness ==
  \E site \in DOMAIN hooks :
    /\ hooks[site].latest # NONE
    /\ hooks[site].latest.state = "rejected"
    /\ hooks[site].st.error = hooks[site].latest.reason

\* the call sites whose producer is a list method or getStats
ListSites ==
  {site \in DOMAIN hooks : Producer(site) \in ListMethods \cup {"getStats"}}

\* C17: fetch failures for list data and the Dashboard statistics are
\* invisible: the hook's error stays null for every transport outcome, the
\* ErrorMessage panel is never rendered, and the content is rendered once
\* loading ends.
C17_ListFailuresInvisible ==
  \A site \in ListSites :
    /\ hooks[site].st.error = NULL
    /\ View(hooks[site].st) # "ErrorMessage"
    /\ hooks[site].latest # NONE => View(hooks[site].st) = "content"

\* outside mock mode a list section shows its fixture: the transport failed
\* and the fixture was substituted
C17_Witness ==
  \E site \in ListSites :
    /\ ~useMock
    /\ Producer(site) \in ListMethods
    /\ hooks[site].latest # NONE
    /\ hooks[site].st.data = FixtureOf(Producer(site))
    /\ View(hooks[site].st) = "content"

\* a cycle starts in the step: the mount, a trigger change or a refetch
CycleStarts(site) ==
  \/ hooks'[site].mounted # hooks[site].mounted
  \/ hooks'[site].triggers # hooks[site].triggers
  \/ hooks'[site].refetches # hooks[site].refetches

\* C18: every start of a cycle clears the error, sets loading and increases
\* the generation by exactly one, with the call still in flight; the
\* generation never decreases.
C18_StartClearsAndBumps ==
  [][\A site \in DOMAIN hooks :
       /\ hooks'[site].st.gen >= hooks[site].st.gen
       /\ CycleStarts(site) =>
            /\ hooks'[site].st.error = NULL
            /\ hooks'[site].st.loading
            /\ hooks'[site].st.gen = hooks[site].st.gen + 1
            /\ hooks'[site].st.gen \in hooks'[site].pending
            /\ hooks'[site].st.data = hooks[site].st.data]_vars

\* a cycle has started while the state held an error, and is in flight
C18_Witness ==
  \E site \in DOMAIN hooks :
    /\ hooks[site].cleared
    /\ hooks[site].st.gen \in hooks[site].pending
    /\ hooks[site].st.error = NULL
    /\ hooks[site].st.loading

\* C19: the settlement of a superseded call leaves data, error and loading
\* unchanged; only the settlement of the call with the current generation
\* adopts the result and ends loading, and loading stays true while that
\* call is in flight.
C19_StaleLeavesState ==
  [][\A site \in DOMAIN hooks :
       /\ \A g \in hooks[site].pending \ hooks'[site].pending :
            IF g = hooks[site].st.gen
              THEN Adopted(hooks'[site], hooks'[site].latest)
              ELSE hooks'[site].st = hooks[site].st
       /\ (hooks[site].st.loading /\ ~hooks'[site].st.loading) =>
            hooks[site].st.gen \in hooks[site].pending \ hooks'[site].pending
       /\ hooks'[site].st.gen \in hooks'[site].pending =>
            hooks'[site].st.loading]_vars

\* the call of the mount settled after refetch() superseded it, and the
\* call of the refetch is still in flight
C19_Witness ==
  \E site \in DOMAIN hooks :
    /\ hooks[site].discarded
    /\ hooks[site].st.gen = 2
    /\ hooks[site].pending = {2}
    /\ hooks[site].st.loading

\* C20: the producer is invoked once on mount, once per change of the
\* trigger signal and once per refetch(), and at no other time: not after a
\* failure and not on a timer.
C20_InvokedOnlyOnStart ==
  \A site \in DOMAIN hooks :
    hooks[site].invoked =
      (IF hooks[site].mounted THEN 1 ELSE 0)
        + hooks[site].triggers + hooks[site].refetches

\* after the mount, a trigger change and a refetch, the last call failed and
\* nothing is in flight
C20_Witness ==
  \E site \in DOMAIN hooks :
    /\ hooks[site].mounted
    /\ hooks[site].triggers = 1
    /\ hooks[site].refetches = 1
    /\ hooks[site].invoked = 3
    /\ hooks[site].pending = {}
    /\ hooks[site].latest # NONE
    /\ Failure(hooks[site].latest) # NULL

(***************************************************************************)
(* Properties of the transport, the wrapper and the data service, checked  *)
(* under Spec.                                                             *)
(***************************************************************************)
\* the call in progress goes through apiRequest
UsesTransport ==
  \/ entry \in {"api", "healthCheck"}
  \/ entry \in FallbackMethods /\ ~useMock

\* C21: no retries below the caller: a call through apiRequest hands exactly
\* one request to the transport whatever the outcome, and a list method
\* whose request failed goes on to the fixture without a second request.
C21_NoRetry ==
  pc # "idle" =>
    /\ Len(httpRequests) = (IF UsesTransport THEN 1 ELSE 0)
    /\ (pc = "awaitMock" /\ adapter # NONE) =>
         (~adapter.ok /\ Len(httpRequests) = 1 /\ staticFetches = <<>>)

\* a list method has returned the fixture after its one request failed
C21_Witness ==
  /\ pc = "done"
  /\ entry \in ListMethods
  /\ TransportRejected
  /\ Len(httpRequests) = 1
  /\ result = [data |-> FixtureOf(entry), error |-> NULL]

\* C22 as stated: every error the transport produces for a timeout is shown
\* with the timeout text, and the network text is shown only for an error
\* with no response and no timeout.
C22_TimeoutShownAsTimeout ==
  TransportRejected =>
    /\ adapter.error.code = Str("ECONNABORTED") =>
         getErrorMessage(settled.reason) = TimeoutText
    /\ getErrorMessage(settled.reason) = NetworkText =>
         (adapter.error.response = UNDEFINED
            /\ adapter.error.code # Str("ECONNABORTED"))

\* getTerritoryMetrics has returned the data object built from its payload
TerritorySucceeded ==
  /\ pc = "done"
  /\ entry = "getTerritoryMetrics"
  /\ parsed # NONE
  /\ parsed.state = "fulfilled"
  /\ result.error = NULL

\* payload.k of the parsed territory aggregate
PayloadProp(k) ==
  IF parsed.value.t = "object" THEN Get(parsed.value, k) ELSE UNDEFINED

\* C23 as stated: on success groupBy is the payload's group_by whenever that
\* is not null or undefined (the empty string included) and 'zip_code'
\* otherwise; summary is the payload's summary when it has one.
C23_GroupByNullish ==
  TerritorySucceeded =>
    /\ Get(result.data, "groupBy") =
         (IF Nullish(PayloadProp("group_by")) THEN Str("zip_code")
          ELSE PayloadProp("group_by"))
    /\ ~Nullish(PayloadProp("summary")) =>
         Get(result.data, "summary") = PayloadProp("summary")

\* C24 as stated: when the fetch of getTerritoryMetrics answers with a
\* status s that is not ok, the error returned carries status = s, and the
\* error panel selects the 404 / 500 text from it.
C24_NotOkCarriesStatus ==
  (pc = "done" /\ entry = "getTerritoryMetrics" /\ response # NONE /\ ~response.ok) =>
    /\ Prop(result.error, "status") = response.status
    /\ response.status = Num(404) => getErrorMessage(result.error) = NotFoundText
    /\ response.status = Num(500) => getErrorMessage(result.error) = ServerErrorText

\* the lines on the console that the transport interceptors wrote
TransportLines == {i \in DOMAIN console : console[i].origin = "api"}

\* the interceptor lines that debug mode owes for the call in progress: one
\* for each request handed over and one for each settlement
LinesDue == Len(httpRequests) + (IF adapter # NONE THEN 1 ELSE 0)

\* C25: the interceptors write their request, response and error lines only
\* when the debug flag is on: with debug off nothing of theirs reaches the
\* console whether the request succeeds or fails; and in both modes the
\* request configuration and the response pass through unchanged.
C25_LogsOnlyInDebug ==
  /\ ~enableDebug => TransportLines = {}
  /\ (enableDebug /\ pc # "idle") => Cardinality(TransportLines) = LinesDue
  /\ \A i \in DOMAIN httpRequests :
       requestInterceptor(httpRequests[i]) = httpRequests[i]
  /\ (adapter # NONE /\ adapter.ok) =>
       (settled.state = "fulfilled" /\ settled.value = adapter.response)

\* with debug off a list method's request failed and the method fell back:
\* the console holds the data service's warning and nothing of the transport
C25_Witness ==
  /\ ~enableDebug
  /\ pc = "done"
  /\ entry \in ListMethods
  /\ TransportRejected
  /\ console = <<fallbackLine(entry)>>

(***************************************************************************)
(* More properties of the fetch lifecycle hook, checked under HookSpec.    *)
(***************************************************************************)
\* C26: hook instances are independent: a start, a settlement or a refetch
\* in one instance leaves the state and the generation of every other
\* instance as they were.
C26_InstancesIndependent ==
  [][\A a \in DOMAIN hooks, b \in DOMAIN hooks :
       (a # b /\ hooks'[a] # hooks[a]) => hooks'[b] = hooks[b]]_vars

\* in the Dashboard the statistics have been loaded and are shown while the
\* territory metrics failed and are being fetched again
C26_Witness ==
  /\ section = "dashboard"
  /\ "Dashboard.territories" \in DOMAIN hooks
  /\ hooks["Dashboard.stats"].latest # NONE
  /\ hooks["Dashboard.stats"].st.gen = 1
  /\ hooks["Dashboard.stats"].st.error = NULL
  /\ View(hooks["Dashboard.stats"].st) = "content"
  /\ hooks["Dashboard.territories"].cleared
  /\ hooks["Dashboard.territories"].st.gen = 2
  /\ hooks["Dashboard.territories"].st.loading

(***************************************************************************)
(* More properties of the data service, checked under Spec.                *)
(***************************************************************************)
\* C27: with mock mode off, when the wrapper succeeds for a list method or
\* the direct getStats the method returns the server's payload unchanged
\* with error null; the fixture is substituted only after the wrapper
\* reported an error.
C27_SuccessPassesPayload ==
  (entry \in FallbackMethods /\ ~useMock /\ adapter # NONE) =>
    /\ adapter.ok =>
         (pc = "done"
            /\ result = [data |-> adapter.response.data, error |-> NULL])
    /\ pc = "awaitMock" => ~adapter.ok

\* a list method has returned the empty list the server answered with
C27_Witness ==
  /\ entry \in ListMethods
  /\ ~useMock
  /\ pc = "done"
  /\ adapter # NONE
  /\ adapter.ok
  /\ adapter.response.data = Arr(<<>>)
  /\ result = [data |-> Arr(<<>>), error |-> NULL]

(***************************************************************************)
(* Properties of the ErrorBoundary, checked under BoundarySpec.            *)
(***************************************************************************)
\* C28: the ErrorBoundary shows the failure panel instead of its children
\* from the moment a fault is caught until a manual reset (or a reload);
\* the reset returns it to the initial state, so the children are rendered
\* again, and without a caught fault the children are always rendered.
C28_PanelUntilReset ==
  /\ render(boundary.state) = "panel"
       <=> boundary.faults > boundary.resets + boundary.reloads
  /\ render(boundary.state) = "children" => boundary.state = boundaryState
  /\ (render(boundary.state) = "panel" /\ boundary.pending = NONE) =>
       /\ boundary.state.error \in RenderFaults
       /\ boundary.state.errorInfo \in ComponentStacks
       /\ boundary.logged = boundary.faults

\* a fault was caught and shown, the user pressed Try Again, and the
\* children are rendered again
C28_Witness ==
  /\ boundary.faults = 1
  /\ boundary.logged = 1
  /\ boundary.resets = 1
  /\ boundary.reloads = 0
  /\ render(boundary.state) = "children"
  /\ boundary.state = boundaryState

(***************************************************************************)
(* Properties of run_docker.ps1, checked under RunDockerSpec.              *)
(***************************************************************************)
\* C29 as stated: in detached mode the summary and exit code 0 are reached
\* only after the container reported the health status healthy; an
\* unhealthy status or a step that failed leads to exit code 1.
C29_SuccessOnlyWhenHealthy ==
  /\ (~runDocker.interactive /\ (runDocker.summary \/ runDocker.exitCode = 0)) =>
       runDocker.health = "healthy"
  /\ (runDocker.pc = "exited"
        /\ (runDocker.health = "unhealthy" \/ runDocker.thrown # "")) =>
       runDocker.exitCode = 1

(***************************************************************************)
(* Properties of entrypoint.sh, checked under EntrypointSpec.              *)
(***************************************************************************)
\* the script has come to its end without a signal
EntrypointEnded ==
  entrypoint.pc \in {"exited", "replaced"} /\ ~entrypoint.signalled

\* C30 as stated: entrypoint.sh validates before starting: the container
\* command is exec'd, and only after setup_directories ran and
\* validate_files found zero errors; when a required file is missing or
\* the nginx test fails the script exits with 1 and execs nothing.
C30_ValidatesThenStarts ==
  /\ entrypoint.execd # <<>> =>
       (entrypoint.setup /\ entrypoint.validated /\ entrypoint.errors = 0)
  /\ (EntrypointEnded /\ entrypoint.setup
        /\ validate_files(entrypoint.files, entrypoint.nginx) > 0) =>
       (entrypoint.status = 1 /\ entrypoint.execd = <<>>)
  /\ (EntrypointEnded /\ entrypoint.validated /\ entrypoint.errors = 0) =>
       entrypoint.execd = entrypoint.args

====
